---- MODULE Spec2Model ----
(***************************************************************************)
(* Model of UDPAudioStreamer (src/udp_audio_streamer.py): the receiver     *)
(* thread (udp_receiver), the playback thread (audio_player) and the main  *)
(* thread (start / stop), interleaved statement by statement, together     *)
(* with the datagrams test_sender.py builds.                               *)
(*                                                                         *)
(* A datagram and a chunk are sequences of bytes (0..255).  struct.pack     *)
(* with a native-order format is modelled for a little-endian host.        *)
(***************************************************************************)
EXTENDS Integers, Sequences, FiniteSets, TLC

\* ---- bounds of the model -------------------------------------------------
\* maxsize of audio_queue (100 in the source)
Capacity == 2
\* number of datagrams the network delivers in one session
MaxPackets == 3

\* samples in one datagram of the sender (samples_per_packet in the source)
SamplesPerPacket == 1
\* number of datagrams of one session that are not the sender's packet as sent
MaxMalformed == 1

\* ---- program constants ---------------------------------------------------
\* bytes of the frame header the sender puts in front of the samples
HeaderLen == 6

VARIABLES
    running,            \* self.running
    save_file,          \* self.save_file is set (recording enabled)
    audio_queue,        \* self.audio_queue, oldest chunk first
    audio_data_buffer,  \* self.audio_data_buffer
    sock,               \* self.sock: "none", "open", "broken" (open, every recvfrom fails), "closed"
    stream,             \* self.stream: "none", "open", "failed" (open, every write fails), "closed"
    wav_file,           \* self.wav_file: "none", "open", "closed"
    wav_frames,         \* chunks written to the file by writeframes
    wav_i,              \* position of stop()'s for loop in audio_data_buffer
    released,           \* number of close / terminate calls made on each resource
    mainpc,             \* position of the main thread
    rpc,                \* position of the receiver thread ("done", "dead": ended)
    ppc,                \* position of the playback thread
    data,               \* udp_receiver's local: the datagram received
    audio_bytes,        \* udp_receiver's local: the chunk decoded
    audio_data,         \* audio_player's local: the chunk drained
    arrived,            \* history: datagrams returned by recvfrom
    inserted,           \* history: chunks put in audio_queue
    evicted,            \* history: chunks the receiver removed from audio_queue
    dropped,            \* history: chunks the receiver gave up inserting
    drained,            \* history: chunks the player removed from audio_queue
    written,            \* history: chunks written to the playback device
    starved,            \* history: the player's iteration just ended in queue.Empty
    fullSnap            \* history: audio_queue and Len(drained) when put_nowait raised Full

vars == <<running, save_file, audio_queue, audio_data_buffer, sock, stream,
          wav_file, wav_frames, wav_i, released, mainpc, rpc, ppc, data,
          audio_bytes, audio_data, arrived, inserted, evicted, dropped,
          drained, written, starved, fullSnap>>

mainVars == <<running, stream, wav_file, wav_frames, wav_i, released, mainpc>>
udpVars  == <<data, audio_bytes, arrived, inserted, evicted, dropped, fullSnap>>
playVars == <<audio_data, drained, written, starved>>

\* ---- byte level: struct.pack / struct.unpack ------------------------------
Pow256(i) == IF i = 0 THEN 1 ELSE IF i = 1 THEN 256 ELSE IF i = 2 THEN 65536 ELSE 16777216

\* n as w little-endian bytes
LE(n, w) == [i \in 1..w |-> (n \div Pow256(i - 1)) % 256]

ToU16(s) == (s + 65536) % 65536
ToS16(u) == IF u >= 32768 THEN u - 65536 ELSE u

RECURSIVE PackSamples(_)
PackSamples(samples) ==
    IF samples = <<>> THEN <<>>
    ELSE LE(ToU16(Head(samples)), 2) \o PackSamples(Tail(samples))

\* struct.unpack(f'<{len(data)//2}h', data) raises struct.error unless the
\* buffer holds exactly 2 * (len(data)//2) bytes
UnpackOk(d) == Len(d) = 2 * (Len(d) \div 2)
Unpack(d) == [i \in 1..(Len(d) \div 2) |-> ToS16(d[2 * i - 1] + 256 * d[2 * i])]

\* struct.pack(f'{len(samples)}h', *samples)
Pack(samples) == PackSamples(samples)

\* ---- the sender's datagrams ----------------------------------------------
\* header = struct.pack('<HI', seq_num, sample_timestamp); the timestamps of
\* the model stay far below the 32-bit range
EncodeHeader(seq, ts) == LE(seq % 65536, 2) \o LE(ts, 4)

\* the k-th datagram of the sender, k = 1, 2, ...: one sample of value -k
SenderSamples(k) == [i \in 1..SamplesPerPacket |-> 0 - k]
SenderPacket(k) ==
    EncodeHeader(k - 1, (k - 1) * SamplesPerPacket) \o PackSamples(SenderSamples(k))

\* what recvfrom may return for the k-th datagram: the sender's packet, the
\* same packet cut one byte short of its header (5 bytes) or two bytes short
\* (4 bytes), or a single byte
Datagrams(k) ==
    { SenderPacket(k),
      SubSeq(SenderPacket(k), 1, HeaderLen - 1),
      SubSeq(SenderPacket(k), 1, HeaderLen - 2),
      <<k>> }

WellFormed(d) == Len(d) >= 2 /\ UnpackOk(d)

\* the datagrams among q that are not the sender's packet as sent
RECURSIVE Damaged(_)
Damaged(q) ==
    IF q = <<>> THEN 0
    ELSE Damaged(SubSeq(q, 1, Len(q) - 1))
         + (IF q[Len(q)] = SenderPacket(Len(q)) THEN 0 ELSE 1)

\* ---- queue.Queue ----------------------------------------------------------
QueueFullOff(q) == Len(q) > Capacity
QueueFull(q) == Len(q) >= Capacity

QueueGetNewest(q) == q[Len(q)]
QueueGet(q) == Head(q)

QueueRestNewest(q) == SubSeq(q, 1, Len(q) - 1)
QueueRest(q) == Tail(q)

\* ---- initial state: after UDPAudioStreamer.__init__ ----------------------
Init ==
    /\ running = FALSE
    /\ save_file \in BOOLEAN
    /\ audio_queue = <<>>
    /\ audio_data_buffer = <<>>
    /\ sock = "none"
    /\ stream = "none"
    /\ wav_file = "none"
    /\ wav_frames = <<>>
    /\ wav_i = 0
    /\ released = [s \in {"sock", "stream", "wav", "pyaudio"} |-> 0]
    /\ mainpc = "start"
    /\ rpc = "idle"
    /\ ppc = "idle"
    /\ data = <<>>
    /\ audio_bytes = <<>>
    /\ audio_data = <<>>
    /\ arrived = <<>>
    /\ inserted = <<>>
    /\ evicted = <<>>
    /\ dropped = <<>>
    /\ drained = <<>>
    /\ written = <<>>
    /\ starved = FALSE
    /\ fullSnap = [q |-> <<>>, n |-> 0]

\* ---- udp_receiver ---------------------------------------------------------
\* socket.socket(...), setsockopt
UdpSocket ==
    /\ rpc = "socket"
    /\ sock' = "open"
    /\ rpc' = "bind"
    /\ UNCHANGED <<save_file, audio_queue, audio_data_buffer, ppc>>
    /\ UNCHANGED <<mainVars, udpVars, playVars>>

\* bind, settimeout: an exception here ends the thread: "dead" when bind
\* fails at startup (port in use), "done" when stop() has already closed the
\* socket under the thread
UdpBind ==
    /\ rpc = "bind"
    /\ \E ok \in BOOLEAN :
          rpc' = IF sock # "open" THEN "done" ELSE IF ok THEN "loop" ELSE "dead"
    /\ UNCHANGED <<save_file, audio_queue, audio_data_buffer, sock, ppc>>
    /\ UNCHANGED <<mainVars, udpVars, playVars>>

UdpLoopCondAlways == TRUE
UdpLoopCond == running

\* while self.running
UdpLoop ==
    /\ rpc = "loop"
    /\ rpc' = IF UdpLoopCond THEN "recv" ELSE "done"
    /\ UNCHANGED <<save_file, audio_queue, audio_data_buffer, sock, ppc>>
    /\ UNCHANGED <<mainVars, udpVars, playVars>>

\* data, addr = self.sock.recvfrom(4096): a datagram
UdpRecvfrom ==
    /\ rpc = "recv"
    /\ sock = "open"
    /\ Len(arrived) < MaxPackets
    /\ \E d \in Datagrams(Len(arrived) + 1) :
          /\ Damaged(Append(arrived, d)) <= MaxMalformed
          /\ data' = d
          /\ arrived' = Append(arrived, d)
    /\ rpc' = "decode"
    /\ UNCHANGED <<save_file, audio_queue, audio_data_buffer, sock, ppc>>
    /\ UNCHANGED <<mainVars, playVars, audio_bytes, inserted, evicted, dropped, fullSnap>>

\* recvfrom raises an error that is no timeout (except Exception: print), the
\* first of a lasting error condition of the socket: from now on every
\* recvfrom raises
UdpRecvError ==
    /\ rpc = "recv"
    /\ sock = "open"
    /\ sock' = "broken"
    /\ rpc' = "loop"
    /\ UNCHANGED <<save_file, audio_queue, audio_data_buffer, ppc>>
    /\ UNCHANGED <<mainVars, udpVars, playVars>>

\* recvfrom raises: socket.timeout (continue), or an error of a closed or
\* failing socket (except Exception: print); both go back to the loop test
UdpRecvRaise ==
    /\ rpc = "recv"
    /\ rpc' = "loop"
    /\ UNCHANGED <<save_file, audio_queue, audio_data_buffer, sock, ppc>>
    /\ UNCHANGED <<mainVars, udpVars, playVars>>

\* if data and len(data) >= 2: unpack, pack (struct.error goes to except Exception)
UdpDecode ==
    /\ rpc = "decode"
    /\ IF Len(data) >= 2 /\ UnpackOk(data)
       THEN /\ audio_bytes' = Pack(Unpack(data))
            /\ rpc' = "put"
       ELSE /\ audio_bytes' = audio_bytes
            /\ rpc' = "loop"
    /\ UNCHANGED <<save_file, audio_queue, audio_data_buffer, sock, ppc>>
    /\ UNCHANGED <<mainVars, playVars, data, arrived, inserted, evicted, dropped, fullSnap>>

\* self.audio_queue.put() in place of put_nowait(): waits for a free slot
UdpPutBlocking ==
    /\ rpc = "put"
    /\ ~QueueFull(audio_queue)
    /\ audio_queue' = Append(audio_queue, audio_bytes)
    /\ inserted' = Append(inserted, audio_bytes)
    /\ rpc' = "save"
    /\ UNCHANGED <<save_file, audio_data_buffer, sock, ppc>>
    /\ UNCHANGED <<mainVars, playVars, data, audio_bytes, arrived, evicted, dropped, fullSnap>>

\* self.audio_queue.put_nowait(audio_bytes), or queue.Full
UdpPut ==
    /\ rpc = "put"
    /\ IF QueueFull(audio_queue)
       THEN /\ rpc' = "evict_get"
            /\ fullSnap' = [q |-> audio_queue, n |-> Len(drained)]
            /\ UNCHANGED <<audio_queue, inserted>>
       ELSE /\ audio_queue' = Append(audio_queue, audio_bytes)
            /\ inserted' = Append(inserted, audio_bytes)
            /\ rpc' = "save"
            /\ UNCHANGED fullSnap
    /\ UNCHANGED <<save_file, audio_data_buffer, sock, ppc>>
    /\ UNCHANGED <<mainVars, playVars, data, audio_bytes, arrived, evicted, dropped>>

\* except queue.Empty: continue, in place of pass
UdpEvictGetSkipSave ==
    /\ rpc = "evict_get"
    /\ IF audio_queue = <<>>
       THEN /\ dropped' = Append(dropped, audio_bytes)
            /\ rpc' = "loop"
            /\ UNCHANGED <<audio_queue, evicted>>
       ELSE /\ evicted' = Append(evicted, QueueGet(audio_queue))
            /\ audio_queue' = QueueRest(audio_queue)
            /\ rpc' = "evict_put"
            /\ UNCHANGED dropped
    /\ UNCHANGED <<save_file, audio_data_buffer, sock, ppc>>
    /\ UNCHANGED <<mainVars, playVars, data, audio_bytes, arrived, inserted, fullSnap>>

\* except queue.Full: self.audio_queue.get_nowait(), or queue.Empty: pass
UdpEvictGet ==
    /\ rpc = "evict_get"
    /\ IF audio_queue = <<>>
       THEN /\ dropped' = Append(dropped, audio_bytes)
            /\ rpc' = "save"
            /\ UNCHANGED <<audio_queue, evicted>>
       ELSE /\ evicted' = Append(evicted, QueueGet(audio_queue))
            /\ audio_queue' = QueueRest(audio_queue)
            /\ rpc' = "evict_put"
            /\ UNCHANGED dropped
    /\ UNCHANGED <<save_file, audio_data_buffer, sock, ppc>>
    /\ UNCHANGED <<mainVars, playVars, data, audio_bytes, arrived, inserted, fullSnap>>

\* self.audio_queue.put_nowait(audio_bytes) after the eviction; a queue.Full
\* here would leave through except Exception
UdpEvictPut ==
    /\ rpc = "evict_put"
    /\ IF QueueFull(audio_queue)
       THEN /\ dropped' = Append(dropped, audio_bytes)
            /\ rpc' = "loop"
            /\ UNCHANGED <<audio_queue, inserted>>
       ELSE /\ audio_queue' = Append(audio_queue, audio_bytes)
            /\ inserted' = Append(inserted, audio_bytes)
            /\ rpc' = "save"
            /\ UNCHANGED dropped
    /\ UNCHANGED <<save_file, audio_data_buffer, sock, ppc>>
    /\ UNCHANGED <<mainVars, playVars, data, audio_bytes, arrived, evicted, fullSnap>>

\* self.audio_data_buffer.insert(0, audio_bytes) in place of append
UdpSavePrepend ==
    /\ rpc = "save"
    /\ audio_data_buffer' = IF save_file THEN <<audio_bytes>> \o audio_data_buffer
                            ELSE audio_data_buffer
    /\ rpc' = "loop"
    /\ UNCHANGED <<save_file, audio_queue, sock, ppc>>
    /\ UNCHANGED <<mainVars, udpVars, playVars>>

\* if self.save_file: self.audio_data_buffer.append(audio_bytes)
UdpSave ==
    /\ rpc = "save"
    /\ audio_data_buffer' = IF save_file THEN Append(audio_data_buffer, audio_bytes)
                            ELSE audio_data_buffer
    /\ rpc' = "loop"
    /\ UNCHANGED <<save_file, audio_queue, sock, ppc>>
    /\ UNCHANGED <<mainVars, udpVars, playVars>>

Receiver ==
    \/ UdpSocket \/ UdpBind \/ UdpLoop \/ UdpRecvfrom \/ UdpRecvError \/ UdpRecvRaise
    \/ UdpDecode \/ UdpPut \/ UdpEvictGet \/ UdpEvictPut \/ UdpSave

\* ---- audio_player ---------------------------------------------------------
PlayerLoopCond == running

\* while self.running
PlayerLoop ==
    /\ ppc = "loop"
    /\ ppc' = IF PlayerLoopCond THEN "get" ELSE "done"
    /\ starved' = FALSE
    /\ UNCHANGED <<save_file, audio_queue, audio_data_buffer, sock, rpc>>
    /\ UNCHANGED <<mainVars, udpVars, audio_data, drained, written>>

\* audio_data = self.audio_queue.get(timeout=1.0): a chunk is there
PlayerGet ==
    /\ ppc = "get"
    /\ audio_queue # <<>>
    /\ audio_data' = QueueGet(audio_queue)
    /\ audio_queue' = QueueRest(audio_queue)
    /\ drained' = Append(drained, QueueGet(audio_queue))
    /\ ppc' = "write"
    /\ starved' = FALSE
    /\ UNCHANGED <<save_file, audio_data_buffer, sock, rpc, written>>
    /\ UNCHANGED <<mainVars, udpVars>>

\* the get times out and a chunk of silence is written to the device
PlayerGetEmptySilence ==
    /\ ppc = "get"
    /\ audio_queue = <<>>
    /\ ppc' = "loop"
    /\ starved' = TRUE
    /\ written' = Append(written, <<0, 0>>)
    /\ UNCHANGED <<save_file, audio_queue, audio_data_buffer, sock, rpc>>
    /\ UNCHANGED <<mainVars, udpVars, audio_data, drained>>

\* the get times out on an empty queue: except queue.Empty: continue
PlayerGetEmpty ==
    /\ ppc = "get"
    /\ audio_queue = <<>>
    /\ ppc' = "loop"
    /\ starved' = TRUE
    /\ UNCHANGED <<save_file, audio_queue, audio_data_buffer, sock, rpc>>
    /\ UNCHANGED <<mainVars, udpVars, audio_data, drained, written>>

\* the write raises and the loop ends, in place of except Exception: print
PlayerWriteFatal ==
    /\ ppc = "write"
    /\ \E ok \in BOOLEAN :
          /\ written' = IF stream # "none" /\ audio_data # <<>> /\ stream = "open" /\ ok
                        THEN Append(written, audio_data)
                        ELSE written
          /\ stream' = IF stream = "open" /\ audio_data # <<>> /\ ~ok THEN "failed" ELSE stream
          /\ ppc' = IF stream = "none" \/ audio_data = <<>> \/ (stream = "open" /\ ok)
                    THEN "loop" ELSE "done"
    /\ UNCHANGED <<save_file, audio_queue, audio_data_buffer, sock, rpc>>
    /\ UNCHANGED <<running, wav_file, wav_frames, wav_i, released, mainpc>>
    /\ UNCHANGED <<udpVars, audio_data, drained, starved>>

\* if self.stream and audio_data: self.stream.write(audio_data); the write
\* raises on a closed stream, and on an open one when the device fails
\* (disconnected): the device then stays failed, it is not reopened
PlayerWrite ==
    /\ ppc = "write"
    /\ \E ok \in BOOLEAN :
          /\ written' = IF stream # "none" /\ audio_data # <<>> /\ stream = "open" /\ ok
                        THEN Append(written, audio_data)
                        ELSE written
          /\ stream' = IF stream = "open" /\ audio_data # <<>> /\ ~ok THEN "failed" ELSE stream
    /\ ppc' = "loop"
    /\ UNCHANGED <<save_file, audio_queue, audio_data_buffer, sock, rpc>>
    /\ UNCHANGED <<running, wav_file, wav_frames, wav_i, released, mainpc>>
    /\ UNCHANGED <<udpVars, audio_data, drained, starved>>

Player == PlayerLoop \/ PlayerGet \/ PlayerGetEmpty \/ PlayerWrite

\* ---- start ------------------------------------------------------------------
\* self.running = True
StartRunning ==
    /\ mainpc = "start"
    /\ running' = TRUE
    /\ mainpc' = "setup_audio"
    /\ UNCHANGED <<save_file, audio_queue, audio_data_buffer, sock, rpc, ppc>>
    /\ UNCHANGED <<stream, wav_file, wav_frames, wav_i, released>>
    /\ UNCHANGED <<udpVars, playVars>>

\* setup_audio_stream: pyaudio open; an exception leaves start()
SetupAudioStream ==
    /\ mainpc = "setup_audio"
    /\ \E ok \in BOOLEAN :
          /\ stream' = IF ok THEN "open" ELSE stream
          /\ mainpc' = IF ok THEN "setup_wav" ELSE "failed"
    /\ UNCHANGED <<save_file, audio_queue, audio_data_buffer, sock, rpc, ppc>>
    /\ UNCHANGED <<running, wav_file, wav_frames, wav_i, released>>
    /\ UNCHANGED <<udpVars, playVars>>

\* setup_wav_file: if self.save_file: wave.open; an exception leaves start()
SetupWavFile ==
    /\ mainpc = "setup_wav"
    /\ IF save_file
       THEN \E ok \in BOOLEAN :
               /\ wav_file' = IF ok THEN "open" ELSE wav_file
               /\ mainpc' = IF ok THEN "start_udp" ELSE "failed"
       ELSE /\ wav_file' = wav_file
            /\ mainpc' = "start_udp"
    /\ UNCHANGED <<save_file, audio_queue, audio_data_buffer, sock, rpc, ppc>>
    /\ UNCHANGED <<running, stream, wav_frames, wav_i, released>>
    /\ UNCHANGED <<udpVars, playVars>>

\* self.udp_thread.start()
StartUdpThread ==
    /\ mainpc = "start_udp"
    /\ rpc' = "socket"
    /\ mainpc' = "start_audio"
    /\ UNCHANGED <<save_file, audio_queue, audio_data_buffer, sock, ppc>>
    /\ UNCHANGED <<running, stream, wav_file, wav_frames, wav_i, released>>
    /\ UNCHANGED <<udpVars, playVars>>

\* self.audio_thread.start()
StartAudioThread ==
    /\ mainpc = "start_audio"
    /\ ppc' = "loop"
    /\ mainpc' = "sleep"
    /\ UNCHANGED <<save_file, audio_queue, audio_data_buffer, sock, rpc>>
    /\ UNCHANGED <<running, stream, wav_file, wav_frames, wav_i, released>>
    /\ UNCHANGED <<udpVars, playVars>>

\* KeyboardInterrupt in the sleep loop: self.stop()
Interrupt ==
    /\ mainpc = "sleep"
    /\ mainpc' = "stop"
    /\ UNCHANGED <<save_file, audio_queue, audio_data_buffer, sock, rpc, ppc>>
    /\ UNCHANGED <<running, stream, wav_file, wav_frames, wav_i, released>>
    /\ UNCHANGED <<udpVars, playVars>>

\* ---- stop -------------------------------------------------------------------
\* stop() without self.running = False
StopRunningNoFlag ==
    /\ mainpc = "stop"
    /\ mainpc' = "join_udp"
    /\ UNCHANGED <<save_file, audio_queue, audio_data_buffer, sock, rpc, ppc>>
    /\ UNCHANGED <<running, stream, wav_file, wav_frames, wav_i, released>>
    /\ UNCHANGED <<udpVars, playVars>>

\* self.running = False
StopRunning ==
    /\ mainpc = "stop"
    /\ running' = FALSE
    /\ mainpc' = "join_udp"
    /\ UNCHANGED <<save_file, audio_queue, audio_data_buffer, sock, rpc, ppc>>
    /\ UNCHANGED <<stream, wav_file, wav_frames, wav_i, released>>
    /\ UNCHANGED <<udpVars, playVars>>

\* self.udp_thread.join(timeout=2.0): returns when the thread has ended or
\* when the timeout expires
JoinUdp ==
    /\ mainpc = "join_udp"
    /\ mainpc' = "join_audio"
    /\ UNCHANGED <<save_file, audio_queue, audio_data_buffer, sock, rpc, ppc>>
    /\ UNCHANGED <<running, stream, wav_file, wav_frames, wav_i, released>>
    /\ UNCHANGED <<udpVars, playVars>>

\* self.audio_thread.join(timeout=2.0)
JoinAudio ==
    /\ mainpc = "join_audio"
    /\ mainpc' = "close_stream"
    /\ UNCHANGED <<save_file, audio_queue, audio_data_buffer, sock, rpc, ppc>>
    /\ UNCHANGED <<running, stream, wav_file, wav_frames, wav_i, released>>
    /\ UNCHANGED <<udpVars, playVars>>

\* if self.stream: stop_stream(), close(); pyaudio_instance.terminate()
CloseStream ==
    /\ mainpc = "close_stream"
    /\ IF stream # "none"
       THEN /\ stream' = "closed"
            /\ released' = [released EXCEPT !["stream"] = @ + 1, !["pyaudio"] = @ + 1]
       ELSE /\ stream' = stream
            /\ released' = [released EXCEPT !["pyaudio"] = @ + 1]
    /\ mainpc' = "close_sock"
    /\ UNCHANGED <<save_file, audio_queue, audio_data_buffer, sock, rpc, ppc>>
    /\ UNCHANGED <<running, wav_file, wav_frames, wav_i>>
    /\ UNCHANGED <<udpVars, playVars>>

\* if self.sock: self.sock.close()
CloseSock ==
    /\ mainpc = "close_sock"
    /\ IF sock # "none"
       THEN /\ sock' = "closed"
            /\ released' = [released EXCEPT !["sock"] = @ + 1]
       ELSE UNCHANGED <<sock, released>>
    /\ mainpc' = "wav_check"
    /\ UNCHANGED <<save_file, audio_queue, audio_data_buffer, rpc, ppc>>
    /\ UNCHANGED <<running, stream, wav_file, wav_frames, wav_i>>
    /\ UNCHANGED <<udpVars, playVars>>

WavGuard == wav_file # "none" /\ audio_data_buffer # <<>>

\* if self.wav_file and self.audio_data_buffer:
WavCheck ==
    /\ mainpc = "wav_check"
    /\ mainpc' = IF WavGuard THEN "wav_write" ELSE "stopped"
    /\ wav_i' = 0
    /\ UNCHANGED <<save_file, audio_queue, audio_data_buffer, sock, rpc, ppc>>
    /\ UNCHANGED <<running, stream, wav_file, wav_frames, released>>
    /\ UNCHANGED <<udpVars, playVars>>

\* for chunk in self.audio_data_buffer: self.wav_file.writeframes(chunk)
WavWrite ==
    /\ mainpc = "wav_write"
    /\ IF wav_i < Len(audio_data_buffer)
       THEN /\ wav_frames' = Append(wav_frames, audio_data_buffer[wav_i + 1])
            /\ wav_i' = wav_i + 1
            /\ mainpc' = mainpc
       ELSE /\ mainpc' = "wav_close"
            /\ UNCHANGED <<wav_frames, wav_i>>
    /\ UNCHANGED <<save_file, audio_queue, audio_data_buffer, sock, rpc, ppc>>
    /\ UNCHANGED <<running, stream, wav_file, released>>
    /\ UNCHANGED <<udpVars, playVars>>

\* self.wav_file.close()
WavClose ==
    /\ mainpc = "wav_close"
    /\ wav_file' = "closed"
    /\ released' = [released EXCEPT !["wav"] = @ + 1]
    /\ mainpc' = "stopped"
    /\ UNCHANGED <<save_file, audio_queue, audio_data_buffer, sock, rpc, ppc>>
    /\ UNCHANGED <<running, stream, wav_frames, wav_i>>
    /\ UNCHANGED <<udpVars, playVars>>

Main ==
    \/ StartRunning \/ SetupAudioStream \/ SetupWavFile \/ StartUdpThread
    \/ StartAudioThread \/ Interrupt \/ StopRunning \/ JoinUdp \/ JoinAudio
    \/ CloseStream \/ CloseSock \/ WavCheck \/ WavWrite \/ WavClose

Stop ==
    \/ StopRunning \/ JoinUdp \/ JoinAudio \/ CloseStream \/ CloseSock
    \/ WavCheck \/ WavWrite \/ WavClose

Next == Receiver \/ Player \/ Main

Spec == Init /\ [][Next]_vars

\* the threads are scheduled: each statement of a running thread, every
\* bounded wait included, eventually returns
FairSpec == Spec /\ WF_vars(Receiver) /\ WF_vars(Player)

\* stop() runs on the main thread, which is scheduled; nothing is assumed of
\* the two other threads
StopFairSpec == Spec /\ WF_vars(Stop)

\* all three threads are scheduled; the user's KeyboardInterrupt is not owed
AllFairSpec == FairSpec /\ WF_vars(Stop)

\* ---- helpers of the properties ---------------------------------------------
Range(q) == { q[i] : i \in 1..Len(q) }

NoDup(q) == \A i, j \in 1..Len(q) : q[i] = q[j] => i = j

\* a is b with some elements left out, order kept
RECURSIVE IsSubseq(_, _)
IsSubseq(a, b) ==
    IF a = <<>> THEN TRUE
    ELSE IF b = <<>> THEN FALSE
    ELSE IF Head(a) = Head(b) THEN IsSubseq(Tail(a), Tail(b))
    ELSE IsSubseq(a, Tail(b))

\* stop() has executed self.running = False
StopSignalled ==
    mainpc \in {"join_udp", "join_audio", "close_stream", "close_sock",
                "wav_check", "wav_write", "wav_close", "stopped"}

\* ---- properties ----------------------------------------------------------

\* C1: in every reachable state the number of chunks in audio_queue is between
\* 0 and its capacity; no insert makes it exceed the capacity.
C1_QueueBounded == Len(audio_queue) \in 0..Capacity

\* C1 witness: the queue is at capacity after an insert into a full queue
C1_Witness == Len(audio_queue) = Capacity /\ evicted # <<>>

\* C2: when the receiver inserts into a full queue and the player removes
\* nothing between the failed put_nowait and the second put_nowait, the queue
\* afterwards is the old queue without its oldest chunk followed by the new
\* chunk, and the one chunk removed is the oldest; and when Capacity + 1 chunks
\* have been inserted with nothing drained or dropped, the queue holds the last
\* Capacity of them in order (capacity 2, chunks 0,1,2: the queue is [1,2]).
C2_EvictOldestKeepOrder ==
    /\ []((drained = <<>> /\ dropped = <<>> /\ Len(inserted) = Capacity + 1)
            => audio_queue = SubSeq(inserted, 2, Capacity + 1))
    /\ [][(rpc = "evict_put" /\ rpc' = "save" /\ Len(drained') = fullSnap.n)
            => /\ Len(fullSnap.q) = Capacity
               /\ audio_queue' = Append(Tail(fullSnap.q), audio_bytes)
               /\ evicted[Len(evicted)] = Head(fullSnap.q)]_vars

\* C2 witness: Capacity + 1 chunks arrived before any drain, the first one was
\* evicted and the others are queued in order
C2_Witness ==
    /\ rpc = "save"
    /\ drained = <<>>
    /\ Len(inserted) = Capacity + 1
    /\ evicted = <<inserted[1]>>
    /\ audio_queue = SubSeq(inserted, 2, Capacity + 1)

\* C3 (the claim as stated): the receiver never gives up a chunk of a
\* well-formed datagram, and between the queue.Full of put_nowait and the
\* receiver's get_nowait the queue stays full, so that the receiver removes a
\* chunk only from a full queue.
C3_AtomicEvictInsert ==
    /\ dropped = <<>>
    /\ rpc = "evict_get" => Len(audio_queue) = Capacity

\* C4: whenever the receiver holds a decoded chunk to insert, its next step
\* (put_nowait, get_nowait or the second put_nowait) is enabled, whatever the
\* fill level of the queue and whatever the player does.
C4_ReceiverNeverWaits ==
    /\ rpc = "put" => ENABLED UdpPut
    /\ rpc = "evict_get" => ENABLED UdpEvictGet
    /\ rpc = "evict_put" => ENABLED UdpEvictPut

\* C4 witness: the receiver is about to insert into a full queue and the player
\* has exited for good
C4_Witness == rpc = "put" /\ Len(audio_queue) = Capacity /\ ppc = "done"

\* C5: the chunks the player removes, and those it writes to the device, are
\* a subsequence of the chunks the receiver inserted, in the same order, and
\* no chunk is removed twice.
C5_DrainOrder ==
    /\ IsSubseq(drained, inserted)
    /\ IsSubseq(written, drained)
    /\ NoDup(drained)

\* C5 witness: two chunks played in order although an earlier one was evicted
C5_Witness == Len(written) >= 2 /\ written = drained /\ evicted # <<>>

C8_EmptyRecordingClosed ==
    (mainpc = "stopped" /\ save_file /\ arrived = <<>>) => wav_file = "closed"

\* C9: once stop() has set running to False, the receive loop and the playback
\* loop both eventually exit (the receiver thread may also have ended at bind).
C9_ShutdownConverges ==
    StopSignalled ~> (rpc \in {"done", "dead"} /\ ppc = "done")

\* C9 witness: stop was signalled while both loops were running and both exited
C9_Witness ==
    /\ StopSignalled
    /\ rpc = "done"
    /\ ppc = "done"
    /\ arrived # <<>>

\* C10 (the claim as stated): after stop() has completed, every resource that
\* was opened has been released exactly once.
C10_ReleasedExactlyOnce ==
    mainpc = "stopped" =>
        /\ sock # "none" => released["sock"] = 1
        /\ stream # "none" => released["stream"] = 1
        /\ wav_file # "none" => released["wav"] = 1

\* ---- properties, continued ---------------------------------------------------
\* the receiver thread is inside its while loop
InReceiveLoop == rpc \in {"loop", "recv", "decode", "put", "evict_get", "evict_put", "save"}

\* a datagram the headered framing rejects: shorter than the header, or with
\* an odd number of payload bytes
Malformed(d) == Len(d) < HeaderLen \/ (Len(d) - HeaderLen) % 2 = 1

\* the datagrams the receiver has finished handling
Handled ==
    IF rpc \in {"decode", "put", "evict_get", "evict_put", "save"}
    THEN SubSeq(arrived, 1, Len(arrived) - 1)
    ELSE arrived

\* the chunks udp_receiver decodes from the datagrams of q it accepts
RECURSIVE ChunksOf(_)
ChunksOf(q) ==
    IF q = <<>> THEN <<>>
    ELSE IF WellFormed(Head(q)) THEN <<Pack(Unpack(Head(q)))>> \o ChunksOf(Tail(q))
    ELSE ChunksOf(Tail(q))

\* C11 (the claim as stated): the socket is closed only after the receive loop
\* has exited; the receiver is never inside the body of its loop, at recvfrom
\* or handling a datagram, with the socket closed.
C11_SocketClosedAfterLoopExit ==
    sock = "closed" => rpc \notin {"recv", "decode", "put", "evict_get", "evict_put", "save"}

\* C12 (the claim as stated): the playback stream is never stopped and closed
\* while the player is between draining a chunk and finishing its write.
C12_NoWriteOnClosedStream == ~(ppc = "write" /\ stream = "closed")

\* C13 (the claim as stated): after a device-open or file-open failure main
\* has exited non-zero with no loop running and everything opened before the
\* failure (PyAudio instance, stream, file, socket) released; and a session
\* whose bind failed never ends with start() returning normally (exit code 0).
C13_StartupFailureAborts ==
    /\ mainpc = "failed" =>
          /\ rpc = "idle" /\ ppc = "idle"
          /\ released["pyaudio"] = 1
          /\ stream \notin {"open", "failed"}
          /\ wav_file # "open"
          /\ sock \notin {"open", "broken"}
    /\ rpc = "dead" => mainpc # "stopped"

\* C14 (the claim as stated): when every recvfrom raises a non-timeout error,
\* the receive loop eventually ends and running has become False.
C14_PersistentErrorStops ==
    (sock = "broken" /\ InReceiveLoop) ~> (rpc = "done" /\ ~running)

\* C15 (the claim as stated): a datagram shorter than the 6-byte header or
\* with an odd number of payload bytes adds no chunk: every chunk put in the
\* queue or in the accumulator, and the chunk the receiver is inserting, comes
\* from a datagram that is not malformed.
C15_MalformedDiscarded ==
    /\ \A c \in Range(inserted) \cup Range(audio_data_buffer) :
          \E i \in 1..Len(arrived) :
              ~Malformed(arrived[i]) /\ c = Pack(Unpack(arrived[i]))
    /\ rpc \in {"put", "evict_get", "evict_put", "save"} => ~Malformed(data)

\* C16 (the claim as stated): the chunk decoded from the sender's k-th packet
\* is exactly its payload samples: 2 * N bytes, no header byte.
C16_ChunkIsPayload ==
    (rpc = "put" /\ data = SenderPacket(Len(arrived))) =>
        /\ Unpack(audio_bytes) = SenderSamples(Len(arrived))
        /\ Len(audio_bytes) = 2 * SamplesPerPacket

\* C17: stop() runs in a fixed order: running is False from the first join on;
\* the stream is stopped and PyAudio terminated only after both joins; the
\* socket is closed only after the device was released; a chunk is written to
\* the file only after the socket was closed; and stop(), once entered,
\* completes even if neither loop ever exits.
C17_StopOrderAndTermination ==
    /\ [](StopSignalled => ~running)
    /\ []((released["stream"] > 0 \/ released["pyaudio"] > 0) =>
            mainpc \in {"close_sock", "wav_check", "wav_write", "wav_close", "stopped"})
    /\ [](released["sock"] > 0 => (stream = "closed" /\ released["pyaudio"] = 1))
    /\ [](wav_frames # <<>> => (sock = "closed" /\ released["sock"] = 1))
    /\ (mainpc = "stop" ~> mainpc = "stopped")

\* C17 witness: stop() has completed, file written, while both loops are
\* still inside an iteration
C17_Witness ==
    /\ mainpc = "stopped"
    /\ wav_frames # <<>>
    /\ InReceiveLoop
    /\ ppc \in {"loop", "get", "write"}

\* C18: a get that times out on an empty queue writes nothing to the device
\* and the loop goes on; the device writes never outnumber the chunks drained.
C18_UnderrunWritesNothing ==
    /\ [](Len(written) <= Len(drained))
    /\ [][(ppc = "get" /\ ppc' = "loop")
            => (written' = written /\ drained' = drained /\ running' = running)]_vars

\* C18 witness: the player has just had an underrun after playing a chunk and
\* is back at its loop test with running True
C18_Witness == starved /\ ppc = "loop" /\ running /\ written # <<>>

\* C19: a device write, failing or not, takes the player back to its loop
\* test, and the player leaves its loop only from the loop test, with running
\* False.
C19_WriteFailureKeepsLoop ==
    [][/\ ppc = "write" => ppc' \in {"write", "loop"}
       /\ (ppc # "done" /\ ppc' = "done") => (ppc = "loop" /\ ~running)]_vars

\* C19 witness: after a write failed on the device, with running True, the
\* player has drained the next chunk and is about to write it
C19_Witness ==
    /\ running
    /\ stream = "failed"
    /\ ppc = "write"
    /\ Len(drained) >= 2
    /\ Len(written) < Len(drained) - 1

\* C20: with recording enabled the accumulator holds exactly one entry, in
\* arrival order, for every datagram the receiver accepted (two bytes or more,
\* even length) and has finished handling, whatever was evicted, dropped,
\* drained or is still queued.
C20_AccumulatorIsArrivalOrder ==
    save_file => audio_data_buffer = ChunksOf(Handled)

\* C20 witness: Capacity + 1 datagrams handled, the last one dropped by the
\* receiver, and all of them in the accumulator
C20_Witness ==
    /\ save_file
    /\ rpc = "loop"
    /\ dropped # <<>>
    /\ Len(arrived) = Capacity + 1
    /\ Len(audio_data_buffer) = Capacity + 1

====
